---- MODULE Spec2Model ----
(***************************************************************************)
(* flax/core/partial_eval.py: lazy_init(fn) returns a wrapper that accepts *)
(* a mix of concrete arrays and jax.ShapeDtypeStruct placeholders, runs    *)
(* JAX's partial-evaluation trace of fn once, and returns the outputs only *)
(* if every flattened output leaf came back known; otherwise it raises     *)
(* errors.LazyInitError carrying the abstract value of the offending leaf. *)
(*                                                                         *)
(* The wrapper is modelled line by line as a sequential process (pc).  The *)
(* JAX collaborators it calls (tree_flatten / tree_unflatten, flatten_fun, *)
(* pe.trace_to_jaxpr_nounits) are not part of this repository; they are    *)
(* modelled from their contract: the tree utilities as structural          *)
(* recursion over nested tuples, lists and dicts, the trace as evaluation  *)
(* of fn over partial values where a primitive applied to known operands   *)
(* yields a known result and a primitive with any unknown operand yields   *)
(* an unknown result of the broadcast shape and promoted element type.     *)
(***************************************************************************)
EXTENDS Integers, Sequences, FiniteSets, TLC

\* Concrete scalar inputs carry data 0..MaxData.
MaxData == 1

(***************************************************************************)
(* Values                                                                  *)
(***************************************************************************)
None == [tag |-> "None"]

\* A concrete array; data abstracts the contents as one integer.
Array(s, d, v) == [tag |-> "Array", shape |-> s, dtype |-> d, data |-> v]

\* jax.ShapeDtypeStruct: shape and dtype only, no data.
ShapeDtypeStruct(s, d) == [tag |-> "ShapeDtypeStruct", shape |-> s, dtype |-> d]

\* jax.ShapedArray: the abstract value of an unknown.
ShapedArray(s, d) == [tag |-> "ShapedArray", shape |-> s, dtype |-> d]

\* pe.PartialVal is the pair (pv, const): known is (None, value), unknown is
\* (aval, None).
PartialVal_known(x) == [pv |-> None, const |-> x]

PartialVal_unknown(aval) == [pv |-> aval, const |-> None]

is_known(p) == p.pv = None

\* An exception object: kind and message, and for LazyInitError the partial
\* value it was constructed with.
Exception(k, m, p) == [kind |-> k, msg |-> m, pv |-> p]

LazyInitError(p) == Exception("LazyInitError", "", p)

\* How a call ends for its caller.
Returned(v) == [tag |-> "return", value |-> v, exc |-> None]

Raised(e) == [tag |-> "raise", value |-> None, exc |-> e]

ConcreteVals ==
    {Array(<<>>, "int32", v) : v \in 0..MaxData} \cup {Array(<<2>>, "float32", 1)}

Placeholders ==
    {ShapeDtypeStruct(<<>>, "int32"), ShapeDtypeStruct(<<2>>, "float32")}

LeafVals == ConcreteVals \cup Placeholders

(***************************************************************************)
(* Pytrees: nested tuples, lists and dicts with values at the leaves.  A   *)
(* dict is kept with its keys in sorted order, the order tree_flatten      *)
(* visits them in.                                                         *)
(***************************************************************************)
Leaf(v) == [kind |-> "leaf", val |-> v, keys |-> <<>>, kids |-> <<>>]

Tuple(ks) == [kind |-> "tuple", val |-> None, keys |-> <<>>, kids |-> ks]

List(ks) == [kind |-> "list", val |-> None, keys |-> <<>>, kids |-> ks]

Dict(names, ks) == [kind |-> "dict", val |-> None, keys |-> names, kids |-> ks]

\* The leaf marker of a treedef.
Hole == [tag |-> "*"]

RECURSIVE tree_leaves(_)
RECURSIVE leaves_of_kids(_)
leaves_of_kids(ks) ==
    IF ks = <<>> THEN <<>> ELSE tree_leaves(Head(ks)) \o leaves_of_kids(Tail(ks))

tree_leaves(t) ==
    IF t.kind = "leaf" THEN <<t.val>> ELSE leaves_of_kids(t.kids)

RECURSIVE tree_structure(_)
tree_structure(t) ==
    IF t.kind = "leaf"
    THEN Leaf(Hole)
    ELSE [t EXCEPT !.kids = [k \in DOMAIN t.kids |-> tree_structure(t.kids[k])]]

tree_flatten(t) == <<tree_leaves(t), tree_structure(t)>>

RECURSIVE num_leaves(_)
RECURSIVE num_leaves_of_kids(_)
num_leaves_of_kids(ks) ==
    IF ks = <<>> THEN 0 ELSE num_leaves(Head(ks)) + num_leaves_of_kids(Tail(ks))

num_leaves(td) ==
    IF td.kind = "leaf" THEN 1 ELSE num_leaves_of_kids(td.kids)

\* tree_unflatten consumes the leaves left to right, child by child.
RECURSIVE tree_unflatten(_, _)
tree_unflatten(td, xs) ==
    IF td.kind = "leaf"
    THEN Leaf(xs[1])
    ELSE [td EXCEPT !.kids =
            [k \in DOMAIN td.kids |->
                LET before == num_leaves_of_kids(SubSeq(td.kids, 1, k - 1))
                    n == num_leaves(td.kids[k])
                IN tree_unflatten(td.kids[k], SubSeq(xs, before + 1, before + n))]]

(***************************************************************************)
(* The wrapped function fn.  fn is pure; each output leaf is the sum of    *)
(* the input leaves in deps (positions in flattening order) plus a Python  *)
(* scalar const, or fn raises exc before computing anything.               *)
(***************************************************************************)
Expr(D, c) == [tag |-> "Expr", deps |-> D, const |-> c]

broadcast_shapes(s1, s2) == IF s1 = <<>> THEN s2 ELSE s1

promote_types(d1, d2) ==
    IF d1 = "float32" \/ d2 = "float32" THEN "float32" ELSE "int32"

Min(S) == CHOOSE k \in S : \A m \in S : k <= m

\* x + y on concrete arrays.
add(x, y) ==
    Array(broadcast_shapes(x.shape, y.shape), promote_types(x.dtype, y.dtype),
          x.data + y.data)

\* x + c for a Python scalar c: shape and dtype of x are kept.
add_scalar(x, c) == [x EXCEPT !.data = @ + c]

RECURSIVE sum_args(_, _)
sum_args(D, xs) ==
    LET k == Min(D)
    IN IF D = {k} THEN xs[k] ELSE add(xs[k], sum_args(D \ {k}, xs))

eval_expr(e, xs) ==
    IF e.deps = {}
    THEN Array(<<>>, "int32", e.const)
    ELSE add_scalar(sum_args(e.deps, xs), e.const)

RECURSIVE eval_tree(_, _)
eval_tree(t, xs) ==
    IF t.kind = "leaf"
    THEN Leaf(eval_expr(t.val, xs))
    ELSE [t EXCEPT !.kids = [k \in DOMAIN t.kids |-> eval_tree(t.kids[k], xs)]]

\* fn(*args, **kwargs) called directly on concrete arguments.
call_fn(f, a) ==
    IF f.exc # None
    THEN Raised(f.exc)
    ELSE Returned(eval_tree(f.out, tree_leaves(a)))

(***************************************************************************)
(* The partial-evaluation trace: fn run on partial values.                 *)
(***************************************************************************)
get_aval(p) ==
    IF is_known(p) THEN ShapedArray(p.const.shape, p.const.dtype) ELSE p.pv

add_pval(p, q) ==
    IF is_known(p) /\ is_known(q)
    THEN PartialVal_known(add(p.const, q.const))
    ELSE PartialVal_unknown(
            ShapedArray(broadcast_shapes(get_aval(p).shape, get_aval(q).shape),
                        promote_types(get_aval(p).dtype, get_aval(q).dtype)))

add_scalar_pval(p, c) ==
    IF is_known(p) THEN PartialVal_known(add_scalar(p.const, c)) ELSE p

RECURSIVE sum_pvals(_, _)
sum_pvals(D, ps) ==
    LET k == Min(D)
    IN IF D = {k} THEN ps[k] ELSE add_pval(ps[k], sum_pvals(D \ {k}, ps))

eval_expr_pval(e, ps) ==
    IF e.deps = {}
    THEN PartialVal_known(Array(<<>>, "int32", e.const))
    ELSE add_scalar_pval(sum_pvals(e.deps, ps), e.const)

RECURSIVE eval_tree_pval(_, _)
eval_tree_pval(t, ps) ==
    IF t.kind = "leaf"
    THEN Leaf(eval_expr_pval(t.val, ps))
    ELSE [t EXCEPT !.kids = [k \in DOMAIN t.kids |-> eval_tree_pval(t.kids[k], ps)]]

\* pe.trace_to_jaxpr_nounits(f_flat, in_pvals) with f_flat = flatten_fun(fn,
\* in_tree): rebuild (args, kwargs) from the flat partial values, run fn on
\* them, flatten what it returns.  An exception of fn leaves the trace.
trace_to_jaxpr_nounits(f, it, pvals) ==
    IF f.exc # None
    THEN [tag |-> "raise", exc |-> f.exc, out_pvals |-> <<>>, out_tree |-> None]
    ELSE LET a == tree_unflatten(it, pvals)
             ans == eval_tree_pval(f.out, tree_leaves(a))
         IN [tag |-> "return", exc |-> None,
             out_pvals |-> tree_leaves(ans), out_tree |-> tree_structure(ans)]

(***************************************************************************)
(* The functions and argument trees explored.                              *)
(***************************************************************************)
H == Leaf(Hole)

\* ((x, y), {}) and ((x,), {"k": [y]})
InTrees ==
    { Tuple(<<Tuple(<<H, H>>), Dict(<<>>, <<>>)>>),
      Tuple(<<Tuple(<<H>>), Dict(<<"k">>, <<List(<<H>>)>>)>>) }

Exprs == {Expr({}, 1), Expr({1}, 0), Expr({2}, 1), Expr({1, 2}, 0)}

\* a single array, and {"a": [e1, e2], "b": e3}
OutTrees ==
    {Leaf(e) : e \in Exprs} \cup
    {Dict(<<"a", "b">>, <<List(<<Leaf(e1), Leaf(e2)>>), Leaf(e3)>>) :
        e1 \in Exprs, e2 \in Exprs, e3 \in Exprs}

Excs ==
    {Exception("ValueError", "bad shape", None),
     Exception("KeyError", "missing", None)}

Fns ==
    {[in_tree |-> it, exc |-> None, out |-> o] : it \in InTrees, o \in OutTrees}
    \cup
    {[in_tree |-> it, exc |-> e, out |-> Leaf(Expr({}, 1))] :
        it \in InTrees, e \in Excs}

ArgTrees(td) ==
    {tree_unflatten(td, xs) : xs \in [1..num_leaves(td) -> LeafVals]}

(***************************************************************************)
(* lazy_init                                                               *)
(***************************************************************************)
\* Variant: the abstract value is built with the default element type.
maybe_unknown_default_dtype(x) ==
    IF x.tag = "ShapeDtypeStruct"
    THEN PartialVal_unknown(ShapedArray(x.shape, "float32"))
    ELSE PartialVal_known(x)

\* _maybe_unknown
maybe_unknown(x) ==
    IF x.tag = "ShapeDtypeStruct"
    THEN PartialVal_unknown(ShapedArray(x.shape, x.dtype))
    ELSE PartialVal_known(x)

\* Variant: the partial values are built in reverse leaf order.
classify_reversed(xs) ==
    [k \in DOMAIN xs |-> maybe_unknown(xs[Len(xs) + 1 - k])]

\* line 44: [_maybe_unknown(x) for x in inputs_flat]
classify(xs) == [k \in DOMAIN xs |-> maybe_unknown(xs[k])]

\* Variant: the loop runs over reversed(out_pvals).
next_leaf_reversed(pvals, n) == pvals[Len(pvals) - n]

\* line 50: the pair the for loop takes after having taken n pairs
next_leaf(pvals, n) == pvals[n + 1]

\* Variant: the test is inverted (pv is not None).
leaf_is_known_inverted(pv) == pv # None

\* Variant: the test is dropped and every const is appended.
leaf_is_known_always(pv) == TRUE

\* line 51: pv is None
leaf_is_known(pv) == pv = None

\* Variant: out_flat.insert(0, const)
collect_front(xs, const) == <<const>> \o xs

\* line 53: out_flat.append(const)
collect(xs, const) == Append(xs, const)

\* Variant: the error is built from the other half of the pair.
error_of_const(pv, const) == LazyInitError(const)

\* line 55: errors.LazyInitError(pv)
error_of(pv, const) == LazyInitError(pv)

\* wrapper(*args, **kwargs) as a function of fn and its arguments alone: the
\* outcome of a call that starts from nothing but its own arguments.
lazy_init_result(f, a) ==
    LET xs == tree_flatten(a)[1]
        it == tree_flatten(a)[2]
        r == trace_to_jaxpr_nounits(f, it, classify(xs))
        U == {k \in DOMAIN r.out_pvals : ~leaf_is_known(r.out_pvals[k].pv)}
    IN IF r.tag = "raise"
       THEN Raised(r.exc)
       ELSE IF U # {}
            THEN Raised(error_of(r.out_pvals[Min(U)].pv, r.out_pvals[Min(U)].const))
            ELSE Returned(tree_unflatten(r.out_tree,
                    [k \in DOMAIN r.out_pvals |-> r.out_pvals[k].const]))

VARIABLES
    fn,           \* the function lazy_init closed over
    pc,           \* position of the wrapper call in progress
    args,         \* (args, kwargs) of the call
    inputs_flat, in_tree,
    in_pvals,
    out_pvals, out_tree,
    out_flat,
    pos,          \* number of out_pvals the for loop has taken
    outcome,      \* what the caller sees: a returned value or a raised exception
    ntrace,       \* calls of pe.trace_to_jaxpr_nounits made by this wrapper call
    first         \* the first completed call: its arguments, out_pvals, outcome

vars == <<fn, pc, args, inputs_flat, in_tree, in_pvals, out_pvals, out_tree,
          out_flat, pos, outcome, ntrace, first>>

NoLocals ==
    /\ args = None /\ inputs_flat = <<>> /\ in_tree = None /\ in_pvals = <<>>
    /\ out_pvals = <<>> /\ out_tree = None /\ out_flat = <<>> /\ pos = 0
    /\ outcome = None /\ ntrace = 0

\* wrapper = lazy_init(fn) has been built; no call is in progress.
Init ==
    /\ fn \in Fns
    /\ pc = "idle"
    /\ first = None
    /\ NoLocals

\* wrapper(*args, **kwargs) is entered: line 40 (and 41, which only builds
\* f_flat and the out_tree thunk).
Call ==
    /\ pc = "idle"
    /\ \E a \in ArgTrees(fn.in_tree) :
        /\ args' = a
        /\ inputs_flat' = tree_flatten(a)[1]
        /\ in_tree' = tree_flatten(a)[2]
    /\ pc' = "classify"
    /\ UNCHANGED <<fn, in_pvals, out_pvals, out_tree, out_flat, pos, outcome,
                   ntrace, first>>

\* line 44
Classify ==
    /\ pc = "classify"
    /\ in_pvals' = classify(inputs_flat)
    /\ pc' = "trace"
    /\ UNCHANGED <<fn, args, inputs_flat, in_tree, out_pvals, out_tree,
                   out_flat, pos, outcome, ntrace, first>>

\* Variant: an exception of fn is caught and reported as LazyInitError.
Trace_wrapped ==
    /\ pc = "trace"
    /\ ntrace' = ntrace + 1
    /\ LET r == trace_to_jaxpr_nounits(fn, in_tree, in_pvals)
       IN IF r.tag = "raise"
          THEN /\ pc' = "raised"
               /\ outcome' = Raised(LazyInitError(None))
               /\ UNCHANGED <<out_pvals, out_tree>>
          ELSE /\ pc' = "loop"
               /\ out_pvals' = r.out_pvals
               /\ out_tree' = r.out_tree
               /\ UNCHANGED outcome
    /\ out_flat' = <<>>
    /\ UNCHANGED <<fn, args, inputs_flat, in_tree, in_pvals, pos, first>>

\* Variant: the trace is attempted a second time when fn raises.
Trace_retry ==
    /\ pc = "trace"
    /\ ntrace' = ntrace + 1
    /\ LET r == trace_to_jaxpr_nounits(fn, in_tree, in_pvals)
       IN IF r.tag = "raise"
          THEN /\ pc' = IF ntrace = 0 THEN "trace" ELSE "raised"
               /\ outcome' = IF ntrace = 0 THEN outcome ELSE Raised(r.exc)
               /\ UNCHANGED <<out_pvals, out_tree>>
          ELSE /\ pc' = "loop"
               /\ out_pvals' = r.out_pvals
               /\ out_tree' = r.out_tree
               /\ UNCHANGED outcome
    /\ out_flat' = <<>>
    /\ UNCHANGED <<fn, args, inputs_flat, in_tree, in_pvals, pos, first>>

\* Variant: the result of the first successful trace is memoised per fn and
\* reused by later calls whatever their arguments.
Trace_cached ==
    /\ pc = "trace"
    /\ ntrace' = ntrace + 1
    /\ LET hit == first # None /\ first.outcome.tag = "return"
           r == IF hit
                THEN [tag |-> "return", exc |-> None,
                      out_pvals |-> first.out_pvals,
                      out_tree |-> tree_structure(first.outcome.value)]
                ELSE trace_to_jaxpr_nounits(fn, in_tree, in_pvals)
       IN IF r.tag = "raise"
          THEN /\ pc' = "raised"
               /\ outcome' = Raised(r.exc)
               /\ UNCHANGED <<out_pvals, out_tree>>
          ELSE /\ pc' = "loop"
               /\ out_pvals' = r.out_pvals
               /\ out_tree' = r.out_tree
               /\ UNCHANGED outcome
    /\ out_flat' = <<>>
    /\ UNCHANGED <<fn, args, inputs_flat, in_tree, in_pvals, pos, first>>

\* lines 45-49: the trace; an exception of fn propagates out of the wrapper.
Trace ==
    /\ pc = "trace"
    /\ ntrace' = ntrace + 1
    /\ LET r == trace_to_jaxpr_nounits(fn, in_tree, in_pvals)
       IN IF r.tag = "raise"
          THEN /\ pc' = "raised"
               /\ outcome' = Raised(r.exc)
               /\ UNCHANGED <<out_pvals, out_tree>>
          ELSE /\ pc' = "loop"
               /\ out_pvals' = r.out_pvals
               /\ out_tree' = r.out_tree
               /\ UNCHANGED outcome
    /\ out_flat' = <<>>
    /\ UNCHANGED <<fn, args, inputs_flat, in_tree, in_pvals, pos, first>>

\* lines 50-55: one iteration of the for loop
CheckLeaf ==
    /\ pc = "loop"
    /\ pos < Len(out_pvals)
    /\ pos' = pos + 1
    /\ LET pv == next_leaf(out_pvals, pos).pv
           const == next_leaf(out_pvals, pos).const
       IN IF leaf_is_known(pv)
          THEN /\ out_flat' = collect(out_flat, const)
               /\ UNCHANGED <<pc, outcome>>
          ELSE /\ pc' = "raised"
               /\ outcome' = Raised(error_of(pv, const))
               /\ UNCHANGED out_flat
    /\ UNCHANGED <<fn, args, inputs_flat, in_tree, in_pvals, out_pvals,
                   out_tree, ntrace, first>>

\* line 56
Return ==
    /\ pc = "loop"
    /\ pos = Len(out_pvals)
    /\ outcome' = Returned(tree_unflatten(out_tree, out_flat))
    /\ pc' = "returned"
    /\ UNCHANGED <<fn, args, inputs_flat, in_tree, in_pvals, out_pvals,
                   out_tree, out_flat, pos, ntrace, first>>

\* The call has ended; its frame is gone and the wrapper can be called again.
Finish ==
    /\ pc \in {"returned", "raised"}
    /\ first' = IF first = None
                THEN [args |-> args, out_pvals |-> out_pvals, outcome |-> outcome]
                ELSE first
    /\ pc' = "idle"
    /\ args' = None /\ inputs_flat' = <<>> /\ in_tree' = None
    /\ in_pvals' = <<>> /\ out_pvals' = <<>> /\ out_tree' = None
    /\ out_flat' = <<>> /\ pos' = 0 /\ outcome' = None /\ ntrace' = 0
    /\ UNCHANGED fn

Next == Call \/ Classify \/ Trace \/ CheckLeaf \/ Return \/ Finish

Spec == Init /\ [][Next]_vars

(***************************************************************************)
(* Properties                                                              *)
(***************************************************************************)
done == pc \in {"returned", "raised"}

\* The trace of the call in progress has returned (it did not raise).
trace_completed == out_tree # None

UnknownIdx == {k \in DOMAIN out_pvals : out_pvals[k].pv # None}

raised_LazyInitError ==
    outcome.tag = "raise" /\ outcome.exc.kind = "LazyInitError"

\* C1: when the trace of fn completes without raising, the call ends with
\* LazyInitError if and only if some flattened output leaf is unknown, and
\* it returns normally if every output leaf is known.
C1_LazyInitErrorIffUnknown ==
    (done /\ trace_completed) =>
        /\ raised_LazyInitError <=> UnknownIdx # {}
        /\ UnknownIdx = {} => (pc = "returned" /\ outcome.tag = "return")

C1_Witness ==
    /\ pc = "raised" /\ trace_completed /\ raised_LazyInitError
    /\ UnknownIdx # {} /\ UnknownIdx # DOMAIN out_pvals

\* C2: the caller sees either a returned structure holding the concrete
\* value of every output leaf, all of them known, or a raised error and no
\* value; nothing is visible before the call ends.
C2_AllKnownOrError ==
    /\ ~done => outcome = None
    /\ done =>
        \/ /\ pc = "returned" /\ outcome.tag = "return" /\ outcome.exc = None
           /\ tree_structure(outcome.value) = out_tree
           /\ tree_leaves(outcome.value) =
                [k \in DOMAIN out_pvals |-> out_pvals[k].const]
           /\ \A k \in DOMAIN out_pvals :
                out_pvals[k].pv = None /\ out_pvals[k].const.tag = "Array"
        \/ /\ pc = "raised" /\ outcome.tag = "raise" /\ outcome.value = None
           /\ outcome.exc # None

\* Known leaves had been collected when the unknown leaf was met.
C2_Witness ==
    pc = "raised" /\ raised_LazyInitError /\ Len(out_flat) > 0

AllConcrete(a) ==
    \A k \in DOMAIN tree_leaves(a) : tree_leaves(a)[k] \in ConcreteVals

\* C3: with only concrete argument leaves and an fn that returns, the
\* wrapper returns exactly what fn returns on the same arguments (same leaf
\* values, order, nesting and keys) and does not raise.
C3_AllKnownRoundTrip ==
    (done /\ AllConcrete(args) /\ call_fn(fn, args).tag = "return") =>
        /\ pc = "returned"
        /\ outcome = call_fn(fn, args)

C3_Witness ==
    /\ pc = "returned" /\ AllConcrete(args)
    /\ out_tree.kind = "dict"
    /\ out_flat[1] # out_flat[2] /\ out_flat[2] # out_flat[3]

\* C9: one partial value per flattened input leaf, in leaf order: unknown
\* with the leaf's shape and element type exactly when the leaf is a
\* placeholder descriptor, known with the leaf's own value otherwise.
C9_InputClassification ==
    pc \in {"trace", "loop", "returned", "raised"} =>
        LET xs == tree_leaves(args)
        IN /\ inputs_flat = xs
           /\ Len(in_pvals) = Len(xs)
           /\ \A k \in DOMAIN xs :
                IF xs[k] \in Placeholders
                THEN /\ in_pvals[k].pv.tag = "ShapedArray"
                     /\ in_pvals[k].pv.shape = xs[k].shape
                     /\ in_pvals[k].pv.dtype = xs[k].dtype
                     /\ in_pvals[k].const = None
                ELSE in_pvals[k].pv = None /\ in_pvals[k].const = xs[k]

C9_Witness ==
    /\ pc = "trace"
    /\ tree_leaves(args)[1] = ShapeDtypeStruct(<<>>, "int32")
    /\ tree_leaves(args)[2] \in ConcreteVals
    /\ in_pvals[1].pv # None /\ in_pvals[2].pv = None

\* C10: the raised LazyInitError carries the descriptor of the unknown
\* output leaf with the lowest index; the leaves before it were collected
\* and the leaves after it are not inspected.
C10_FirstUnknownReported ==
    (pc = "raised" /\ raised_LazyInitError) =>
        /\ UnknownIdx # {}
        /\ pos = Min(UnknownIdx)
        /\ outcome.exc.pv = out_pvals[Min(UnknownIdx)].pv
        /\ out_flat = [k \in 1..(pos - 1) |-> out_pvals[k].const]

C10_Witness ==
    /\ pc = "raised" /\ raised_LazyInitError
    /\ UnknownIdx = {2, 3}
    /\ out_pvals[2].pv # out_pvals[3].pv
    /\ pos = 2

\* The input leaves output leaf j of fn is computed from.
deps_of(j) == tree_leaves(fn.out)[j].deps

PlaceholderIdx ==
    {k \in DOMAIN tree_leaves(args) : tree_leaves(args)[k] \in Placeholders}

\* The output leaves computed, directly or through a sum, from a placeholder.
DependentOut ==
    IF fn.exc # None \/ args = None
    THEN {}
    ELSE {j \in DOMAIN tree_leaves(fn.out) : deps_of(j) \cap PlaceholderIdx # {}}

\* C4 as stated: for every output leaf computed from a placeholder input,
\* the call raises LazyInitError and the error carries the abstract value the
\* trace inferred for that very leaf.
C4_AsStated ==
    done =>
        \A j \in DependentOut :
            raised_LazyInitError /\ outcome.exc.pv = out_pvals[j].pv

\* C4 amended: if some output leaf is computed from a placeholder input, the
\* call raises LazyInitError and the error carries the abstract value the
\* trace inferred for the first such leaf in flattened output order.
C4_FirstDependentReported ==
    (done /\ DependentOut # {}) =>
        /\ raised_LazyInitError
        /\ outcome.exc.pv.tag = "ShapedArray"
        /\ outcome.exc.pv = out_pvals[Min(DependentOut)].pv

\* An indirect dependency (a sum with a concrete operand) is reported while a
\* later dependent leaf has another abstract value.
C4_Witness ==
    /\ pc = "raised" /\ raised_LazyInitError
    /\ Cardinality(DependentOut) >= 2
    /\ Cardinality(deps_of(Min(DependentOut))) = 2
    /\ Cardinality(PlaceholderIdx) = 1
    /\ \E j \in DependentOut : out_pvals[j].pv # outcome.exc.pv

\* The input leaves at which the call in progress differs from the first
\* call.
Replaced ==
    {k \in DOMAIN tree_leaves(args) :
        tree_leaves(args)[k] # tree_leaves(first.args)[k]}

\* The call in progress is the first call with some concrete leaves replaced
\* by placeholders of the same shape and element type.
IsPlaceholderVariant ==
    /\ first # None /\ args # None
    /\ Replaced # {}
    /\ \A k \in Replaced :
        /\ tree_leaves(first.args)[k] \in ConcreteVals
        /\ tree_leaves(args)[k] =
             ShapeDtypeStruct(tree_leaves(first.args)[k].shape,
                              tree_leaves(first.args)[k].dtype)

\* C5: an output leaf that is not computed from the replaced input leaves and
\* was known in the run with the concrete inputs stays known with the same
\* concrete value, and is not the leaf a LazyInitError is raised for.
C5_ShapeOnlyIndependence ==
    (IsPlaceholderVariant /\ trace_completed) =>
        \A j \in DOMAIN out_pvals :
            (deps_of(j) \cap Replaced = {} /\ is_known(first.out_pvals[j])) =>
                /\ is_known(out_pvals[j])
                /\ out_pvals[j].const = first.out_pvals[j].const
                /\ ~(raised_LazyInitError /\ pos = j)

\* Another leaf of the same call turned unknown while an independent leaf
\* that is computed from a concrete input kept its value.
C5_Witness ==
    /\ IsPlaceholderVariant /\ trace_completed /\ done
    /\ \E j \in DOMAIN out_pvals :
        /\ deps_of(j) # {} /\ deps_of(j) \cap Replaced = {}
        /\ is_known(out_pvals[j])
    /\ \E j \in DOMAIN out_pvals :
        is_known(first.out_pvals[j]) /\ ~is_known(out_pvals[j])

\* C6: an exception of fn ends the call as that same exception (kind and
\* message), never as LazyInitError, and the output-leaf loop is not reached.
C6_ExceptionPassThrough ==
    fn.exc # None =>
        /\ pc \notin {"loop", "returned"}
        /\ pos = 0 /\ out_pvals = <<>>
        /\ pc = "raised" =>
            /\ outcome = Raised(fn.exc)
            /\ outcome.exc.kind = fn.exc.kind /\ outcome.exc.msg = fn.exc.msg
            /\ outcome.exc.kind # "LazyInitError"

C6_Witness ==
    /\ pc = "raised" /\ fn.exc # None /\ fn.exc.kind = "KeyError"
    /\ PlaceholderIdx # {}
    /\ outcome.exc.msg = "missing"

\* C7: whatever calls came before, a call ends as a call that starts from
\* its own arguments alone, and as the first call did if the arguments are
\* the same.
C7_NoStateBetweenCalls ==
    done =>
        /\ outcome = lazy_init_result(fn, args)
        /\ (first # None /\ args = first.args) => outcome = first.outcome

\* A later call with other arguments ends differently from the first call.
C7_Witness ==
    /\ done /\ first # None /\ args # first.args
    /\ first.outcome.tag = "return" /\ outcome.tag = "raise"

\* C8: the trace is invoked once per call and never again after an error;
\* the output-leaf loop and LazyInitError come only after it has returned.
C8_SingleTrace ==
    /\ ntrace <= 1
    /\ pc \in {"idle", "classify", "trace"} =>
        (ntrace = 0 /\ pos = 0 /\ outcome = None)
    /\ pc \in {"loop", "returned", "raised"} => ntrace = 1
    /\ (pos > 0 \/ pc \in {"loop", "returned"}) => trace_completed
    /\ (outcome # None /\ raised_LazyInitError) => (ntrace = 1 /\ trace_completed)

C8_Witness ==
    pc = "raised" /\ ntrace = 1 /\ fn.exc # None

====
